---- MODULE Spec2Model ----
(***************************************************************************)
(* Model of BilingualTranslationPipeline (src/translation.py): the text    *)
(* cleaning / Arabic normalization functions, the translation              *)
(* post-processing and the translate_text memo cache.                      *)
(*                                                                         *)
(* A Python str is a sequence of Unicode code points (naturals).           *)
(***************************************************************************)
EXTENDS Integers, Sequences, FiniteSets, TLC

VARIABLES
    direction,          \* self.direction, fixed at construction
    translation_cache,  \* self.translation_cache: original text -> result
    tokenizerCalls,     \* per text: invocations of self.tokenizer(...) (line 588)
    generateCalls,      \* per text: invocations of self.model.generate (line 589)
    last,               \* observation of the most recent translate_text call
    fn,                 \* which pure function is being exercised ("none" in Spec)
    fn_in,              \* its input text
    fn_lang,            \* its language / direction argument
    fn_out,             \* its output
    fn_out2,            \* output of a second application (clean_text only)
    model,              \* self.model / self.tokenizer: "none", "base" or "finetuned"
    dataset,            \* self.dataset: the 'train' and 'validation' records
    evaluation,         \* outcome of the most recent evaluate_translations call
    run,                \* progress of the main program through run_pipeline
    threads             \* translate_text calls in flight, one per thread of control

\* the state outside the pipeline instance's translation service
runVars == <<model, dataset, evaluation, run, threads>>

vars == <<direction, translation_cache, tokenizerCalls, generateCalls, last,
          fn, fn_in, fn_lang, fn_out, fn_out2, runVars>>

-----------------------------------------------------------------------------
(* Bounds *)

\* longest input text enumerated for clean_text / normalize_arabic
MaxLen == 3
\* most tokens concatenated into an enumerated raw engine output
MaxTokens == 3
\* most engine invocations modelled per source text
MaxCalls == 2
\* most records in the loaded training set
MaxRecords == 3
\* most samples in the validation set that is evaluated
MaxSamples == 3

\* threads of control calling translate_text on one instance
MaxThreads == 2

-----------------------------------------------------------------------------
(* Strings *)

\* Python None, as returned by clean_text (-1 is no code point)
None == << -1 >>

\* characters matched by \s of Python's re on str
IsSpace(c) == c \in {9, 10, 11, 12, 13, 28, 29, 30, 31, 32, 133, 160}

\* characters matched by \w of Python's re on str (Basic Latin and the
\* Arabic block: letters, digits and underscore; combining marks are not \w)
IsWordChar(c) ==
    \/ c \in 48..57
    \/ c \in 65..90
    \/ c = 95
    \/ c \in 97..122
    \/ c = 233
    \/ c \in 1568..1610
    \/ c \in 1632..1641
    \/ c \in 1646..1647
    \/ c \in 1649..1747

RECURSIVE lstrip(_)
lstrip(s) ==
    IF s # << >> /\ IsSpace(Head(s)) THEN lstrip(Tail(s)) ELSE s

RECURSIVE rstrip(_)
rstrip(s) ==
    IF s # << >> /\ IsSpace(s[Len(s)])
    THEN rstrip(SubSeq(s, 1, Len(s) - 1))
    ELSE s

\* str.strip()
strip(s) == rstrip(lstrip(s))

RECURSIVE CollapseWhitespace(_)
\* re.sub(r'\s+', ' ', text): each maximal whitespace run becomes one space
CollapseWhitespace(s) ==
    IF s = << >> THEN << >>
    ELSE IF IsSpace(Head(s))
         THEN << 32 >> \o CollapseWhitespace(lstrip(s))
         ELSE << Head(s) >> \o CollapseWhitespace(Tail(s))

\* code points the emoji package treats as emoji (the emoticons block)
IsEmoji(c) == c \in 128512..128591

\* emoji.replace_emoji(text, replace='')
replace_emoji(s) == SelectSeq(s, LAMBDA c : ~IsEmoji(c))

-----------------------------------------------------------------------------
(* normalize_arabic *)

\* self.arabic_normalizer
arabic_normalizer ==
    (1573 :> 1575) @@ (1571 :> 1575) @@ (1570 :> 1575) @@ (1649 :> 1575) @@
    (1609 :> 1610) @@ (1577 :> 1607)

\* unicodedata.normalize('NFKD', c) of one code point: the precomposed
\* hamza / madda letters and e-acute split into base letter + combining mark
NFKDChar(c) ==
    CASE c = 1570 -> << 1575, 1619 >>
      [] c = 1571 -> << 1575, 1620 >>
      [] c = 1572 -> << 1608, 1620 >>
      [] c = 1573 -> << 1575, 1621 >>
      [] c = 1574 -> << 1610, 1620 >>
      [] c = 233  -> << 101, 769 >>
      [] OTHER    -> << c >>

RECURSIVE NFKD(_)
NFKD(s) == IF s = << >> THEN << >> ELSE NFKDChar(Head(s)) \o NFKD(Tail(s))

\* ''.join([self.arabic_normalizer.get(c, c) for c in text])
ApplyNormalizer(s) ==
    [i \in 1..Len(s) |->
        IF s[i] \in DOMAIN arabic_normalizer THEN arabic_normalizer[s[i]] ELSE s[i]]

\* only the tashkil proper, U+064B-U+0652
IsDiacritic_tashkil(c) == c \in 1611..1618

\* the class [\u064B-\u065F]
IsDiacritic(c) == c \in 1611..1631

\* re.sub(r'[\u064B-\u065F]', '', text)
StripDiacritics(s) == SelectSeq(s, LAMBDA c : ~IsDiacritic(c))

\* a slip in the order of the steps: the diacritics are deleted before the
\* decomposition that produces the hamza / madda marks
normalize_arabic_strip_first(text) ==
    ApplyNormalizer(NFKD(StripDiacritics(text)))

normalize_arabic(text) ==
    StripDiacritics(ApplyNormalizer(NFKD(text)))

-----------------------------------------------------------------------------
(* clean_text *)

\* the punctuation listed in both character classes: . , ! ? ' " ( ) -
IsKeptPunct(c) == c \in {46, 44, 33, 63, 39, 34, 40, 41, 45}

\* kept by the class of line 178 (lang == 'ar'): \w, \s, U+0600-U+06FF,
\* the common punctuation, Arabic semicolon, Arabic comma and colon
AllowedAr(c) ==
    \/ IsWordChar(c)
    \/ IsSpace(c)
    \/ c \in 1536..1791
    \/ IsKeptPunct(c)
    \/ c \in {1563, 1548, 58}

\* kept by [^\w\s.,!?\'"()\-] (any other lang)
AllowedOther(c) == IsWordChar(c) \/ IsSpace(c) \/ IsKeptPunct(c)

\* re.sub(r'[^...]', ' ', text): every character outside the class becomes a space
ReplaceDisallowed(s, lang) ==
    [i \in 1..Len(s) |->
        IF (IF lang = "ar" THEN AllowedAr(s[i]) ELSE AllowedOther(s[i]))
        THEN s[i] ELSE 32]

clean_text(text, lang) ==
    LET t1 == strip(CollapseWhitespace(text))
        t2 == replace_emoji(t1)
        t3 == IF lang = "ar"
              THEN ReplaceDisallowed(normalize_arabic(t2), "ar")
              ELSE ReplaceDisallowed(t2, lang)
    IN  IF t3 # << >> THEN t3 ELSE None

-----------------------------------------------------------------------------
(* post-processing of the decoded engine output (translate_text, 592-605) *)

\* raised by translated_text[0] on an empty string
IndexError == << -2 >>

\* str.upper() of one character (Basic Latin letters and e-acute)
Upper(c) ==
    IF c \in 97..122 THEN c - 32 ELSE IF c = 233 THEN 201 ELSE c

\* translated_text[0].upper() + translated_text[1:]   (text non-empty)
CapitalizeFirst(t) == << Upper(Head(t)) >> \o Tail(t)

\* the alternatives of (a|an|the), in the order the regex tries them
Articles == << << 97 >>, << 97, 110 >>, << 116, 104, 101 >> >>

\* is there a word character at position p of s (FALSE outside the string)
WordAt(s, p) == p >= 1 /\ p <= Len(s) /\ IsWordChar(s[p])

\* \b between positions p-1 and p
WordBoundary(s, p) == WordAt(s, p - 1) # WordAt(s, p)

\* does the literal w occur in s at position p
LiteralAt(s, p, w) ==
    p + Len(w) - 1 <= Len(s) /\ SubSeq(s, p, p + Len(w) - 1) = w

RECURSIVE SpaceRunEnd(_, _)
\* first position at or after p that holds no whitespace (greedy \s+)
SpaceRunEnd(s, p) ==
    IF p <= Len(s) /\ IsSpace(s[p]) THEN SpaceRunEnd(s, p + 1) ELSE p

\* the matches of \b(a|an|the)\s+(a|an|the)\b that start at position p,
\* as pairs <<index of the first article, index of the second>>.
\* The pattern has no re.IGNORECASE flag: the literals are lower case.
ArticlePairsAt(s, p) ==
    { ij \in (1..3) \X (1..3) :
        LET w1 == Articles[ij[1]]
            w2 == Articles[ij[2]]
            q  == p + Len(w1)
            r  == SpaceRunEnd(s, q)
        IN  /\ WordBoundary(s, p)
            /\ LiteralAt(s, p, w1)
            /\ r > q
            /\ LiteralAt(s, r, w2)
            /\ WordBoundary(s, r + Len(w2)) }

RECURSIVE DedupArticlesFrom(_, _)
\* re.sub(r'\b(a|an|the)\s+(a|an|the)\b', r'\1', s), scanning from p:
\* leftmost matches, not overlapping, each replaced by its first article
DedupArticlesFrom(s, p) ==
    IF p > Len(s) THEN << >>
    ELSE IF ArticlePairsAt(s, p) # {}
         THEN LET ij == CHOOSE m \in ArticlePairsAt(s, p) :
                            \A n \in ArticlePairsAt(s, p) :
                                m[1] < n[1] \/ (m[1] = n[1] /\ m[2] <= n[2])
                  w1 == Articles[ij[1]]
                  r  == SpaceRunEnd(s, p + Len(w1))
              IN  w1 \o DedupArticlesFrom(s, r + Len(Articles[ij[2]]))
         ELSE << s[p] >> \o DedupArticlesFrom(s, p + 1)

RECURSIVE TightenPunctFrom(_, _, _)
\* re.sub(r'\s([P](?:\s|$))', r'\1', s), scanning from p, P a set of marks:
\* a match takes the space, the mark and the whitespace after the mark (if
\* any); group 1 keeps the mark and that following whitespace
TightenPunctFrom(s, p, P) ==
    IF p > Len(s) THEN << >>
    ELSE IF IsSpace(s[p]) /\ p + 1 <= Len(s) /\ s[p + 1] \in P
         THEN IF p + 2 <= Len(s) /\ IsSpace(s[p + 2])
              THEN << s[p + 1], s[p + 2] >> \o TightenPunctFrom(s, p + 3, P)
              ELSE IF p + 1 = Len(s)
                   THEN << s[p + 1] >>
                   ELSE << s[p] >> \o TightenPunctFrom(s, p + 1, P)
         ELSE << s[p] >> \o TightenPunctFrom(s, p + 1, P)

\* the class [?.!,;] of line 595
EnglishMarks == {63, 46, 33, 44, 59}

\* the class of line 600: Arabic question mark, Arabic comma, Arabic semicolon
ArabicMarks == {1567, 1548, 1563}

\* .replace('.', U+06D4).replace(',', U+060C).replace('"', U+00AB).replace("'", U+00BB)
ArabicPunctuation(t) ==
    [i \in 1..Len(t) |->
        CASE t[i] = 46 -> 1748
          [] t[i] = 44 -> 1548
          [] t[i] = 34 -> 171
          [] t[i] = 39 -> 187
          [] OTHER     -> t[i]]

\* the same without the .strip() of line 605
postprocess_no_strip(raw, dir) ==
    IF dir = "ar-en"
    THEN IF raw = << >> THEN IndexError
         ELSE TightenPunctFrom(
                  DedupArticlesFrom(CapitalizeFirst(raw), 1), 1, EnglishMarks)
    ELSE TightenPunctFrom(ArabicPunctuation(raw), 1, ArabicMarks)

\* lines 592-605: the translated text stored in the result, or IndexError
postprocess(raw, dir) ==
    IF dir = "ar-en"
    THEN IF raw = << >> THEN IndexError
         ELSE strip(TightenPunctFrom(
                        DedupArticlesFrom(CapitalizeFirst(raw), 1), 1, EnglishMarks))
    ELSE strip(TightenPunctFrom(ArabicPunctuation(raw), 1, ArabicMarks))

-----------------------------------------------------------------------------
(* Inputs of the pure functions *)

RECURSIVE StringsUpTo(_, _)
\* all strings over the alphabet A of length at most n
StringsUpTo(A, n) ==
    IF n = 0 THEN { << >> }
    ELSE LET shorter == StringsUpTo(A, n - 1)
         IN  shorter \cup { << c >> \o t : c \in A, t \in { u \in shorter : Len(u) = n - 1 } }

\* space, tab, '.', '@', 'a', e-acute, alef with hamza above, teh marbuta,
\* fatha, an emoji
CleanChars == {32, 9, 46, 64, 97, 233, 1571, 1577, 1614, 128512}

CleanInputs == StringsUpTo(CleanChars, MaxLen)

Langs == {"ar", "en"}

Directions == {"ar-en", "en-ar"}

\* MODEL_CONFIGS[direction]['src_lang']
SrcLang(dir) == IF dir = "ar-en" THEN "ar" ELSE "en"

\* MODEL_CONFIGS[direction]['tgt_lang']
TgtLang(dir) == IF dir = "ar-en" THEN "en" ELSE "ar"

\* pieces of raw engine output: the, The, a, an, x, space, '.', ',', '?',
\* '"', beh, Arabic question mark
RawTokens ==
    { << 116, 104, 101 >>, << 84, 104, 101 >>, << 97 >>, << 97, 110 >>, << 120 >>,
      << 32 >>, << 46 >>, << 44 >>, << 63 >>, << 34 >>, << 1576 >>, << 1567 >> }

RECURSIVE TokenStrings(_)
\* concatenations of at most n raw tokens
TokenStrings(n) ==
    IF n = 0 THEN { << >> }
    ELSE LET shorter == TokenStrings(n - 1)
         IN  shorter \cup { w \o t : w \in RawTokens, t \in shorter }

\* "the the cat sat ."
RawTheTheCat ==
    << 116, 104, 101, 32, 116, 104, 101, 32, 99, 97, 116, 32, 115, 97, 116, 32, 46 >>

\* "The cat sat."
TheCatSat == << 84, 104, 101, 32, 99, 97, 116, 32, 115, 97, 116, 46 >>

\* marhaba , kayfa haluk .   (Arabic letters, ASCII comma and full stop)
RawMarhaba ==
    << 1605, 1585, 1581, 1576, 1575, 32, 44, 32, 1603, 1610, 1601, 32,
       1581, 1575, 1604, 1603, 32, 46 >>

\* the same sentence with Arabic comma and Arabic full stop, no space before them
MarhabaTight ==
    << 1605, 1585, 1581, 1576, 1575, 1548, 32, 1603, 1610, 1601, 32,
       1581, 1575, 1604, 1603, 1748 >>

\* "a , , b" and "ok ! ?": marks that share the space between them
RawCommaComma == << 97, 32, 44, 32, 44, 32, 98 >>

RawBangQuery == << 111, 107, 32, 33, 32, 63 >>

RawInputs ==
    TokenStrings(MaxTokens) \cup
    {RawTheTheCat, RawMarhaba, RawCommaComma, RawBangQuery}

-----------------------------------------------------------------------------
(* The pipeline instance before any translate_text call (__init__, 73-87) *)

NoResult == [original |-> None, cleaned |-> None, translated |-> None]

NoCall ==
    [text |-> None, status |-> "none", error |-> "", result |-> NoResult,
     raw |-> None, logged |-> FALSE, raised |-> FALSE, tok |-> 0, gen |-> 0]

FnIdle ==
    /\ fn = "none"
    /\ fn_in = << >>
    /\ fn_lang = "en"
    /\ fn_out = None
    /\ fn_out2 = None

\* no evaluate_translations call yet
NoEvaluation ==
    [status |-> "none", attempted |-> 0, translated |-> 0, written |-> FALSE,
     returned |-> FALSE, logged |-> FALSE]

\* the main program before its first run_pipeline call
NoRun ==
    [pipeline |-> 0, stages |-> << >>, status |-> "idle", completed |-> << >>,
     failureLogged |-> FALSE, failures |-> {}, warned |-> {}]

\* model, dataset, evaluation, main program and threads before anything ran
RunIdle ==
    /\ model = "none"
    /\ dataset = [train |-> << >>, validation |-> << >>]
    /\ evaluation = NoEvaluation
    /\ run = NoRun
    /\ threads = << >>

-----------------------------------------------------------------------------
(* clean_text and normalize_arabic applied to enumerated inputs *)

PipelineIdle ==
    /\ direction = "ar-en"
    /\ translation_cache = << >>
    /\ tokenizerCalls = << >>
    /\ generateCalls = << >>
    /\ last = NoCall

InitClean ==
    /\ PipelineIdle
    /\ RunIdle
    /\ fn = "input"
    /\ fn_in \in CleanInputs
    /\ fn_lang \in Langs
    /\ fn_out = None
    /\ fn_out2 = None

\* cleaned = self.clean_text(text, lang)
CleanOnce ==
    /\ fn = "input"
    /\ fn' = "cleaned"
    /\ fn_out' = clean_text(fn_in, fn_lang)
    /\ UNCHANGED <<direction, translation_cache, tokenizerCalls, generateCalls,
                   last, fn_in, fn_lang, fn_out2>>
    /\ UNCHANGED runVars

\* self.clean_text(cleaned, lang), for a cleaned text that was not rejected
CleanAgain ==
    /\ fn = "cleaned"
    /\ fn_out # None
    /\ fn' = "recleaned"
    /\ fn_out2' = clean_text(fn_out, fn_lang)
    /\ UNCHANGED <<direction, translation_cache, tokenizerCalls, generateCalls,
                   last, fn_in, fn_lang, fn_out>>
    /\ UNCHANGED runVars

\* self.normalize_arabic(text)
Normalize ==
    /\ fn = "input"
    /\ fn' = "normalized"
    /\ fn_out' = normalize_arabic(fn_in)
    /\ UNCHANGED <<direction, translation_cache, tokenizerCalls, generateCalls,
                   last, fn_in, fn_lang, fn_out2>>
    /\ UNCHANGED runVars

NextClean == CleanOnce \/ CleanAgain \/ Normalize

SpecClean == InitClean /\ [][NextClean]_vars

-----------------------------------------------------------------------------
(* post-processing applied to enumerated raw engine outputs *)

InitPost ==
    /\ PipelineIdle
    /\ RunIdle
    /\ fn = "raw"
    /\ fn_in \in RawInputs
    /\ fn_lang \in Directions
    /\ fn_out = None
    /\ fn_out2 = None

\* lines 592-605 on the decoded text
PostProcess ==
    /\ fn = "raw"
    /\ fn' = "postprocessed"
    /\ fn_out' = postprocess(fn_in, fn_lang)
    /\ UNCHANGED <<direction, translation_cache, tokenizerCalls, generateCalls,
                   last, fn_in, fn_lang, fn_out2>>
    /\ UNCHANGED runVars

NextPost == PostProcess

SpecPost == InitPost /\ [][NextPost]_vars

-----------------------------------------------------------------------------
(* translate_text on one pipeline instance *)

\* texts handed to translate_text: "a", "a " (same cleaned text as "a"),
\* " " and an emoji (both cleaned to None)
SourceTexts == { << 97 >>, << 97, 32 >>, << 32 >>, << 128512 >> }

\* texts self.tokenizer.decode may return: "", " ", "x ."
EngineOutputs == { << >>, << 32 >>, << 120, 32, 46 >> }

\* what the model engine does in one call: model.generate raises, or the
\* decoded text is out
EngineBehaviours ==
    { [raises |-> TRUE, out |-> << >>] } \cup
    { [raises |-> FALSE, out |-> o] : o \in EngineOutputs }

\* a lookup that never finds the entry
CacheHit_never(cache, text) == FALSE

\* line 582: text in self.translation_cache
CacheHit(cache, text) == text \in DOMAIN cache

\* the entry filed under the cleaned text
CacheKey_cleaned(text, cleaned) == cleaned

\* line 608: the key of self.translation_cache[text] = result
CacheKey(text, cleaned) == text

\* lines 585-606 on a miss.  self.tokenizer(None) raises ValueError (the
\* tokenizer needs a text); model.generate may raise; "" [0] raises IndexError.
\* raw is the text self.tokenizer.decode returned (line 590), if it returned
Compute(dir, text, eng) ==
    LET cleaned == clean_text(text, SrcLang(dir))
        post    == postprocess(eng.out, dir)
    IN  IF cleaned = None
        THEN [status |-> "error", error |-> "ValueError", result |-> NoResult,
              raw |-> None, tok |-> 1, gen |-> 0]
        ELSE IF eng.raises
        THEN [status |-> "error", error |-> "ModelInferenceError",
              result |-> NoResult, raw |-> None, tok |-> 1, gen |-> 1]
        ELSE IF post = IndexError
        THEN [status |-> "error", error |-> "IndexError", result |-> NoResult,
              raw |-> eng.out, tok |-> 1, gen |-> 1]
        ELSE [status |-> "miss", error |-> "",
              result |-> [original |-> text, cleaned |-> cleaned, translated |-> post],
              raw |-> eng.out, tok |-> 1, gen |-> 1]

\* the entry written as soon as the engine has answered, before the
\* post-processing had its chance to fail
CacheAfter_store_early(cache, text, dir, out) ==
    IF out.status = "miss" \/ out.error = "IndexError"
    THEN (CacheKey(text, clean_text(text, SrcLang(dir))) :> out.result) @@ cache
    ELSE cache

\* line 608 is reached only when nothing before it raised
CacheAfter(cache, text, dir, out) ==
    IF out.status = "miss"
    THEN (CacheKey(text, out.result.cleaned) :> out.result) @@ cache
    ELSE cache

\* lines 610-612: log_step("Translation error ...", "error"), then raise
Observed(text, out) ==
    [text |-> text, status |-> out.status, error |-> out.error,
     result |-> out.result, raw |-> out.raw, logged |-> out.status = "error",
     raised |-> out.status = "error", tok |-> out.tok, gen |-> out.gen]

Init ==
    /\ direction \in Directions
    /\ translation_cache = << >>
    /\ tokenizerCalls = [t \in SourceTexts |-> 0]
    /\ generateCalls = [t \in SourceTexts |-> 0]
    /\ last = NoCall
    /\ FnIdle
    /\ RunIdle

\* the effect of the body of translate_text on the instance
TranslateCall(text, eng) ==
    /\ IF CacheHit(translation_cache, text)
       THEN /\ last' = [text |-> text, status |-> "hit", error |-> "",
                        result |-> translation_cache[text], raw |-> None,
                        logged |-> FALSE,
                        raised |-> FALSE, tok |-> 0, gen |-> 0]
            /\ UNCHANGED <<translation_cache, tokenizerCalls, generateCalls>>
       ELSE LET out == Compute(direction, text, eng)
            IN  /\ tokenizerCalls[text] < MaxCalls
                /\ last' = Observed(text, out)
                /\ translation_cache' = CacheAfter(translation_cache, text, direction, out)
                /\ tokenizerCalls' = [tokenizerCalls EXCEPT ![text] = @ + out.tok]
                /\ generateCalls' = [generateCalls EXCEPT ![text] = @ + out.gen]

translate_text(text, eng) ==
    /\ fn = "none"
    /\ TranslateCall(text, eng)
    /\ UNCHANGED <<direction, fn, fn_in, fn_lang, fn_out, fn_out2>>
    /\ UNCHANGED runVars

Next == \E text \in SourceTexts, eng \in EngineBehaviours : translate_text(text, eng)

Spec == Init /\ [][Next]_vars

-----------------------------------------------------------------------------
(* translate_text with a stub engine that echoes the cleaned text *)

\* "Hello,   world!!!"
HelloWorld ==
    << 72, 101, 108, 108, 111, 44, 32, 32, 32, 119, 111, 114, 108, 100, 33, 33, 33 >>

\* "Hello, world!!!"
HelloWorldCleaned ==
    << 72, 101, 108, 108, 111, 44, 32, 119, 111, 114, 108, 100, 33, 33, 33 >>

\* texts handed to translate_text: "Hello,   world!!!", "a ", " "
EchoTexts == { HelloWorld, << 97, 32 >>, << 32 >> }

\* the engine that decodes to exactly the text the tokenizer was given
EchoEngine(dir, text) ==
    [raises |-> FALSE, out |-> clean_text(text, SrcLang(dir))]

InitEcho ==
    /\ direction \in Directions
    /\ translation_cache = << >>
    /\ tokenizerCalls = [t \in EchoTexts |-> 0]
    /\ generateCalls = [t \in EchoTexts |-> 0]
    /\ last = NoCall
    /\ FnIdle
    /\ RunIdle

\* the engine of a call echoes, or behaves in any of the other ways
NextEcho ==
    \E text \in EchoTexts :
        \E eng \in EngineBehaviours \cup {EchoEngine(direction, text)} :
            translate_text(text, eng)

SpecEcho == InitEcho /\ [][NextEcho]_vars

-----------------------------------------------------------------------------
(* clean_data on a loaded training set *)

\* sentences of the corpus: "a", " " (cleaned to None), alef-hamza + fatha
DataTexts == { << 97 >>, << 32 >>, << 1571, 1614 >> }

DataRecords == [src : DataTexts, tgt : DataTexts]

RECURSIVE RecordLists(_)
\* all lists of exactly n records
RecordLists(n) ==
    IF n = 0 THEN { << >> }
    ELSE { << r >> \o l : r \in DataRecords, l \in RecordLists(n - 1) }

\* load_data leaves at least one record (it reads train[0])
LoadedTrainSets == UNION { RecordLists(n) : n \in 1..MaxRecords }

\* lines 189-191: the lambda of dataset.map
CleanRecord(r, dir) ==
    [src |-> clean_text(r.src, SrcLang(dir)), tgt |-> clean_text(r.tgt, TgtLang(dir))]

\* a filter that keeps a record as soon as one side survived
KeepRecord_either(r) == r.src # None \/ r.tgt # None

\* line 193: the lambda of .filter
KeepRecord(r) == r.src # None /\ r.tgt # None

\* lines 189-193: map every record, then filter
CleanedTrain(train, dir) ==
    SelectSeq([i \in 1..Len(train) |-> CleanRecord(train[i], dir)], KeepRecord)

InitData ==
    /\ direction \in Directions
    /\ translation_cache = << >>
    /\ tokenizerCalls = << >>
    /\ generateCalls = << >>
    /\ last = NoCall
    /\ fn = "loaded"
    /\ fn_in \in LoadedTrainSets
    /\ fn_lang = SrcLang(direction)
    /\ fn_out = None
    /\ fn_out2 = None
    /\ model = "none"
    /\ dataset = [train |-> fn_in, validation |-> << >>]
    /\ evaluation = NoEvaluation
    /\ run = NoRun
    /\ threads = << >>

\* clean_data (184-209); fn_in keeps the records as loaded, fn_out is the
\* returned dictionary of counts
clean_data ==
    /\ fn = "loaded"
    /\ fn' = "data_cleaned"
    /\ dataset' = [dataset EXCEPT !.train = CleanedTrain(dataset.train, direction)]
    /\ fn_out' = [original_count |-> Len(dataset.train),
                  cleaned_count  |-> Len(dataset'.train),
                  removed_count  |-> Len(dataset.train) - Len(dataset'.train)]
    /\ UNCHANGED <<direction, translation_cache, tokenizerCalls, generateCalls,
                   last, fn_in, fn_lang, fn_out2>>
    /\ UNCHANGED <<model, evaluation, run, threads>>

NextData == clean_data

SpecData == InitData /\ [][NextData]_vars


-----------------------------------------------------------------------------
(* load_model, train_model and translate_text on one pipeline instance *)

\* "This is a translation test"
TestTextEn ==
    << 84, 104, 105, 115, 32, 105, 115, 32, 97, 32, 116, 114, 97, 110, 115, 108,
       97, 116, 105, 111, 110, 32, 116, 101, 115, 116 >>

\* the Arabic test sentence of line 389
TestTextAr ==
    << 1607, 1584, 1575, 32, 1575, 1582, 1578, 1576, 1575, 1585, 32, 1604, 1604,
       1578, 1585, 1580, 1605, 1577 >>

\* line 389
TestText(dir) == IF dir = "en-ar" THEN TestTextEn ELSE TestTextAr

\* line 34
FORCE_RETRAIN == FALSE

\* texts translated on this instance: the test sentences and "a"
ModelTexts == { TestTextEn, TestTextAr, << 97 >> }

\* what the engine decodes depends on the weights: "x ." from the base
\* model, "y ." from the fine-tuned one
ModelDecode(m) == IF m = "base" THEN << 120, 32, 46 >> ELSE << 121, 32, 46 >>

\* the engine of a call with the weights m: it raises or decodes
ModelEngines(m) ==
    { [raises |-> TRUE, out |-> << >>], [raises |-> FALSE, out |-> ModelDecode(m)] }

InitModel ==
    /\ direction \in Directions
    /\ translation_cache = << >>
    /\ tokenizerCalls = [t \in ModelTexts |-> 0]
    /\ generateCalls = [t \in ModelTexts |-> 0]
    /\ last = NoCall
    /\ FnIdle
    /\ RunIdle

\* load_model (375-400): from_pretrained of the fine-tuned directory if it
\* exists, else of the base model, then the test translation whose failure is
\* only logged as a warning; a failing load ends the process with exit()
load_model(exists, loads, eng) ==
    LET m == IF exists /\ ~FORCE_RETRAIN THEN "finetuned" ELSE "base"
    IN  /\ fn = "none"
        /\ model = "none"
        /\ run.status # "exited"
        /\ IF loads
           THEN /\ model' = m
                /\ eng \in ModelEngines(m)
                /\ TranslateCall(TestText(direction), eng)
                /\ run' = run
           ELSE /\ run' = [run EXCEPT !.status = "exited"]
                /\ eng = [raises |-> TRUE, out |-> << >>]
                /\ UNCHANGED <<model, translation_cache, tokenizerCalls,
                               generateCalls, last>>
        /\ UNCHANGED <<direction, fn, fn_in, fn_lang, fn_out, fn_out2,
                       dataset, evaluation, threads>>

\* a training step that also empties the memo of the old weights
train_model_invalidating(ok) ==
    /\ fn = "none"
    /\ model # "none"
    /\ run.status # "exited"
    /\ model' = "finetuned"
    /\ translation_cache' = << >>
    /\ run' = IF ok THEN run ELSE [run EXCEPT !.status = "exited"]
    /\ UNCHANGED <<direction, tokenizerCalls, generateCalls, last,
                   fn, fn_in, fn_lang, fn_out, fn_out2, dataset, evaluation, threads>>

\* train_model (528-560): trainer.train() updates self.model in place; an
\* error ends the process with exit().  The cache is not touched.
train_model(ok) ==
    /\ fn = "none"
    /\ model # "none"
    /\ run.status # "exited"
    /\ model' = "finetuned"
    /\ run' = IF ok THEN run ELSE [run EXCEPT !.status = "exited"]
    /\ UNCHANGED <<direction, translation_cache, tokenizerCalls, generateCalls, last,
                   fn, fn_in, fn_lang, fn_out, fn_out2, dataset, evaluation, threads>>

\* translate_text called with the current weights (interactive test, evaluation)
TranslateWithModel ==
    /\ model # "none"
    /\ run.status # "exited"
    /\ \E text \in {TestText(direction), << 97 >>}, eng \in ModelEngines(model) :
          translate_text(text, eng)

NextModel ==
    \/ \E exists \in BOOLEAN, loads \in BOOLEAN, eng \in ModelEngines("base") \cup ModelEngines("finetuned") :
          load_model(exists, loads, eng)
    \/ \E ok \in BOOLEAN : train_model(ok)
    \/ TranslateWithModel

SpecModel == InitModel /\ [][NextModel]_vars

-----------------------------------------------------------------------------
(* evaluate_translations on a validation set *)

\* source sentences of the validation samples: "a", "b", "c"
EvalTexts == { << 97 >>, << 98 >>, << 99 >> }

RECURSIVE SampleLists(_)
\* all lists of exactly n samples (the reference is always "x")
SampleLists(n) ==
    IF n = 0 THEN { << >> }
    ELSE { << [src |-> t, tgt |-> << 120 >>] >> \o l :
              t \in EvalTexts, l \in SampleLists(n - 1) }

ValidationSets == UNION { SampleLists(n) : n \in 0..MaxSamples }

\* lines 582-583: what a call that finds its text in the cache returns
HitOutcome(cache, text) ==
    [status |-> "hit", error |-> "", result |-> cache[text], raw |-> None,
     tok |-> 0, gen |-> 0]

\* the instance before the loop of line 651
EvalStart ==
    [cache |-> translation_cache, tok |-> tokenizerCalls, gen |-> generateCalls,
     last |-> last, attempted |-> 0, translated |-> 0, failed |-> FALSE]

\* one translate_text call of the loop (line 655) on the instance st
EvalCall(st, text, eng) ==
    CHOOSE nxt \in
        { [cache      |-> CacheAfter(st.cache, text, direction, out),
           tok        |-> [st.tok EXCEPT ![text] = @ + out.tok],
           gen        |-> [st.gen EXCEPT ![text] = @ + out.gen],
           last       |-> Observed(text, out),
           attempted  |-> st.attempted + 1,
           translated |-> IF out.status = "error" THEN st.translated
                          ELSE st.translated + 1,
           failed     |-> out.status = "error"] :
          out \in { IF CacheHit(st.cache, text)
                    THEN HitOutcome(st.cache, text)
                    ELSE Compute(direction, text, eng) } } : TRUE

RECURSIVE EvalLoop_isolating(_, _, _, _)
\* a loop that logs a failing sample and goes on with the next one
EvalLoop_isolating(st, i, samples, engs) ==
    IF i > Len(samples) THEN st
    ELSE CHOOSE end \in
            { EvalLoop_isolating([nxt EXCEPT !.failed = FALSE], i + 1, samples, engs) :
                nxt \in { EvalCall(st, samples[i].src, engs[i]) } } : TRUE

RECURSIVE EvalLoop(_, _, _, _)
\* lines 651-668 from sample i on: an exception of translate_text leaves the
\* loop at once
EvalLoop(st, i, samples, engs) ==
    IF i > Len(samples) THEN st
    ELSE CHOOSE end \in
            { IF nxt.failed THEN nxt ELSE EvalLoop(nxt, i + 1, samples, engs) :
                nxt \in { EvalCall(st, samples[i].src, engs[i]) } } : TRUE

InitEval ==
    /\ direction \in Directions
    /\ translation_cache = << >>
    /\ tokenizerCalls = [t \in EvalTexts |-> 0]
    /\ generateCalls = [t \in EvalTexts |-> 0]
    /\ last = NoCall
    /\ FnIdle
    /\ model = "base"
    /\ dataset \in [train : { << >> }, validation : ValidationSets]
    /\ evaluation = NoEvaluation
    /\ run = NoRun
    /\ threads = << >>

\* evaluate_translations (638-702); engs[i] is what the engine does if sample i
\* reaches it.  With no sample at all avg_rouge['rouge1'] raises KeyError.
\* The except block logs the error and re-raises.
evaluate_translations(engs) ==
    \E st \in { EvalLoop(EvalStart, 1, dataset.validation, engs) } :
    LET raises == st.failed \/ Len(dataset.validation) = 0
    IN  /\ fn = "none"
        /\ evaluation.status = "none"
        /\ translation_cache' = st.cache
        /\ tokenizerCalls' = st.tok
        /\ generateCalls' = st.gen
        /\ last' = st.last
        /\ evaluation' =
              [status     |-> IF raises THEN "raised" ELSE "done",
               attempted  |-> st.attempted,
               translated |-> st.translated,
               written    |-> ~raises,
               returned   |-> ~raises,
               logged     |-> raises]
        /\ UNCHANGED <<direction, fn, fn_in, fn_lang, fn_out, fn_out2,
                       model, dataset, run, threads>>

NextEval ==
    \E engs \in [1..Len(dataset.validation) -> EngineBehaviours] :
        evaluate_translations(engs)

SpecEval == InitEval /\ [][NextEval]_vars

-----------------------------------------------------------------------------
(* The main program: run_pipeline of the ar-en instance, then of the en-ar one *)

\* lines 784-794, in the order of the calls
Stages ==
    << "setup_resources", "load_data", "clean_data", "filter_data", "split_data",
       "load_model", "tokenize_data", "setup_training", "train_model",
       "evaluate_translations", "generate_final_report" >>

\* stages whose except block ends with exit(): SystemExit is no Exception, so
\* it passes the except block of run_pipeline and ends the process
ExitStages ==
    { "setup_resources", "load_data", "clean_data", "filter_data", "split_data",
      "load_model", "tokenize_data", "setup_training", "train_model" }

\* stages with an inner step whose exception is caught and only logged: the
\* visualize_* calls, the test translation of load_model, and the whole body
\* of generate_final_report
WarningStages ==
    { "clean_data", "filter_data", "split_data", "load_model", "train_model",
      "evaluate_translations", "generate_final_report" }

\* what can happen in a stage: it succeeds, an inner caught step fails, or an
\* exception reaches the stage's own except block
StageResults(stage) ==
    {"ok", "failure"} \cup (IF stage \in WarningStages THEN {"inner_failure"} ELSE {})

\* an evaluation whose exception is caught like that of the final report
Halts_exit_only(stage) == stage \in ExitStages

\* does an exception that reaches the except block of the stage end the run:
\* generate_final_report (774-775) logs it and returns normally
Halts(stage) == stage # "generate_final_report"

\* lines 816 and 819 with 779-782: the main program calls the next run_pipeline
StartPipeline ==
    /\ fn = "none"
    /\ run.status = "idle"
    /\ run.pipeline < 2
    /\ run' = [run EXCEPT !.pipeline = @ + 1, !.stages = << >>,
                          !.status = "running", !.warned = {}]
    /\ UNCHANGED <<direction, translation_cache, tokenizerCalls, generateCalls, last,
                   fn, fn_in, fn_lang, fn_out, fn_out2, model, dataset, evaluation, threads>>

\* the next call of lines 784-794, with what happens in it
RunStage(result) ==
    /\ fn = "none"
    /\ run.status = "running"
    /\ Len(run.stages) < Len(Stages)
    /\ LET stage == Stages[Len(run.stages) + 1]
       IN  /\ result \in StageResults(stage)
           /\ run' =
                 [run EXCEPT
                    !.stages = Append(@, stage),
                    !.failures = IF result = "failure"
                                 THEN @ \cup { << run.pipeline, stage >> } ELSE @,
                    !.warned = IF result = "inner_failure" THEN @ \cup {stage} ELSE @,
                    !.status = IF result = "failure" /\ Halts(stage)
                               THEN (IF stage \in ExitStages THEN "exited" ELSE "raised")
                               ELSE @,
                    !.failureLogged = IF result = "failure" /\ Halts(stage)
                                         /\ stage \notin ExitStages
                                      THEN TRUE ELSE @]
    /\ UNCHANGED <<direction, translation_cache, tokenizerCalls, generateCalls, last,
                   fn, fn_in, fn_lang, fn_out, fn_out2, model, dataset, evaluation, threads>>

\* lines 796-797: the success is logged and run_pipeline returns to the main
\* program (after the second pipeline: the interactive mode)
FinishPipeline ==
    /\ fn = "none"
    /\ run.status = "running"
    /\ Len(run.stages) = Len(Stages)
    /\ run' = [run EXCEPT !.completed = Append(@, run.pipeline),
                          !.status = IF run.pipeline = 2 THEN "interactive" ELSE "idle"]
    /\ UNCHANGED <<direction, translation_cache, tokenizerCalls, generateCalls, last,
                   fn, fn_in, fn_lang, fn_out, fn_out2, model, dataset, evaluation, threads>>

InitRun ==
    /\ PipelineIdle
    /\ FnIdle
    /\ RunIdle

NextRun ==
    \/ StartPipeline
    \/ \E result \in {"ok", "inner_failure", "failure"} : RunStage(result)
    \/ FinishPipeline

SpecRun == InitRun /\ [][NextRun]_vars

-----------------------------------------------------------------------------
(* translate_text called from several threads on one instance, no lock.
   A thread can be preempted between the lookup of line 582, the engine work
   of lines 585-606 and the store of line 608. *)

Threads == 1..MaxThreads

\* "a", "a "
ConcurrentTexts == { << 97 >>, << 97, 32 >> }

NoOutcome ==
    [status |-> "none", error |-> "", result |-> NoResult, raw |-> None,
     tok |-> 0, gen |-> 0]

\* a thread outside translate_text
ThreadIdle == [pc |-> "idle", text |-> None, out |-> NoOutcome]

InFlight(t) == threads.calls[t].pc # "idle"

\* a lookup under the stripped text
LookupKey_stripped(text) == strip(text)

\* line 582: the key looked up is the text as passed
LookupKey(text) == text

InitConcurrent ==
    /\ direction \in Directions
    /\ translation_cache = << >>
    /\ tokenizerCalls = [x \in ConcurrentTexts |-> 0]
    /\ generateCalls = [x \in ConcurrentTexts |-> 0]
    /\ last = NoCall
    /\ FnIdle
    /\ model = "none"
    /\ dataset = [train |-> << >>, validation |-> << >>]
    /\ evaluation = NoEvaluation
    /\ run = NoRun
    /\ threads = [calls |-> [t \in Threads |-> ThreadIdle],
                  translatedRuns |-> [x \in ConcurrentTexts |-> 0],
                  staleRuns |-> {},
                  overlapped |-> FALSE]

\* lines 582-583: thread t enters translate_text(text); a hit returns the
\* stored result at once, a miss goes on to the engine
Lookup(t, text) ==
    /\ ~InFlight(t)
    /\ IF CacheHit(translation_cache, LookupKey(text))
       THEN /\ last' = [text |-> text, status |-> "hit", error |-> "",
                        result |-> translation_cache[LookupKey(text)], raw |-> None,
                        logged |-> FALSE, raised |-> FALSE, tok |-> 0, gen |-> 0]
            /\ UNCHANGED threads
       ELSE /\ tokenizerCalls[text]
                 + Cardinality({u \in Threads : threads.calls[u].pc = "miss"
                                                /\ threads.calls[u].text = text})
               < MaxCalls
            /\ threads' =
                 [threads EXCEPT
                    !.calls[t] = [pc |-> "miss", text |-> text, out |-> NoOutcome],
                    !.overlapped = @ \/ \E u \in Threads \ {t} : InFlight(u)]
            /\ UNCHANGED last
    /\ UNCHANGED <<direction, translation_cache, tokenizerCalls, generateCalls,
                   fn, fn_in, fn_lang, fn_out, fn_out2, model, dataset, evaluation, run>>

\* lines 585-606 in thread t: clean, tokenize, generate, decode, post-process,
\* build the result; an exception is logged and raised (610-612)
Generate(t, eng) ==
    /\ threads.calls[t].pc = "miss"
    /\ LET text == threads.calls[t].text
           out  == Compute(direction, text, eng)
       IN  /\ tokenizerCalls' = [tokenizerCalls EXCEPT ![text] = @ + out.tok]
           /\ generateCalls' = [generateCalls EXCEPT ![text] = @ + out.gen]
           /\ IF out.status = "error"
              THEN /\ last' = Observed(text, out)
                   /\ threads' =
                        [threads EXCEPT
                           !.calls[t] = ThreadIdle,
                           !.staleRuns = IF out.gen = 1 /\ text \in DOMAIN translation_cache
                                         THEN @ \cup {text} ELSE @]
              ELSE /\ UNCHANGED last
                   /\ threads' =
                        [threads EXCEPT
                           !.calls[t] = [pc |-> "computed", text |-> text, out |-> out],
                           !.translatedRuns[text] = @ + 1,
                           !.staleRuns = IF text \in DOMAIN translation_cache
                                         THEN @ \cup {text} ELSE @]
    /\ UNCHANGED <<direction, translation_cache,
                   fn, fn_in, fn_lang, fn_out, fn_out2, model, dataset, evaluation, run>>

\* lines 608-609 in thread t: store the result and return it
Store(t) ==
    /\ threads.calls[t].pc = "computed"
    /\ LET text == threads.calls[t].text
           out  == threads.calls[t].out
       IN  /\ translation_cache' = CacheAfter(translation_cache, text, direction, out)
           /\ last' = Observed(text, out)
    /\ threads' = [threads EXCEPT !.calls[t] = ThreadIdle]
    /\ UNCHANGED <<direction, tokenizerCalls, generateCalls,
                   fn, fn_in, fn_lang, fn_out, fn_out2, model, dataset, evaluation, run>>

NextConcurrent ==
    \/ \E t \in Threads, text \in ConcurrentTexts : Lookup(t, text)
    \/ \E t \in Threads, eng \in EngineBehaviours : Generate(t, eng)
    \/ \E t \in Threads : Store(t)

SpecConcurrent == InitConcurrent /\ [][NextConcurrent]_vars

-----------------------------------------------------------------------------
(* Properties of translate_text (specification Spec) *)

\* C1: once a text is in the cache, every later translate_text of it returns
\* the stored result unchanged and invokes neither the tokenizer nor
\* model.generate: the entry and the engine call counts of the text are frozen.
C1_CachedResultReused ==
    [][\A s \in DOMAIN translation_cache :
          /\ s \in DOMAIN translation_cache'
          /\ translation_cache'[s] = translation_cache[s]
          /\ generateCalls'[s] = generateCalls[s]
          /\ tokenizerCalls'[s] = tokenizerCalls[s]
          /\ last'.text = s =>
                /\ last'.status = "hit"
                /\ last'.result = translation_cache[s]
                /\ last'.gen = 0
                /\ last'.tok = 0]_vars

\* a second call for a text whose only engine invocation filled the cache
C1_Witness ==
    /\ last.status = "hit"
    /\ generateCalls[last.text] = 1
    /\ last.result = translation_cache[last.text]

\* C2: a successful miss invokes model.generate exactly once and adds exactly
\* one entry, keyed by the original text (not the cleaned one); entries with
\* the same cleaned text do not stand in for each other.
C2_MissStoresUnderOriginal ==
    [][last'.status = "miss" =>
          LET t == last'.text
          IN  /\ t \notin DOMAIN translation_cache
              /\ generateCalls'[t] = generateCalls[t] + 1
              /\ \A u \in SourceTexts \ {t} : generateCalls'[u] = generateCalls[u]
              /\ last'.result.original = t
              /\ DOMAIN translation_cache' = DOMAIN translation_cache \cup {t}
              /\ translation_cache'[t] = last'.result
              /\ \A k \in DOMAIN translation_cache :
                     translation_cache'[k] = translation_cache[k]]_vars

\* "a" and "a " are both cached, with equal cleaned text, each after its own
\* engine invocation
C2_Witness ==
    /\ {<< 97 >>, << 97, 32 >>} \subseteq DOMAIN translation_cache
    /\ translation_cache[<< 97 >>].cleaned = translation_cache[<< 97, 32 >>].cleaned
    /\ generateCalls[<< 97 >>] >= 1
    /\ generateCalls[<< 97, 32 >>] >= 1
    /\ last.status = "miss"

\* C3: a text whose cleaning is rejected makes translate_text fail with an
\* empty-input error without the tokenizer or model.generate being invoked.
C3_RejectedNeverReachesEngine ==
    /\ \A t \in SourceTexts :
          clean_text(t, SrcLang(direction)) = None =>
              tokenizerCalls[t] = 0 /\ generateCalls[t] = 0
    /\ (last.status # "none" /\ clean_text(last.text, SrcLang(direction)) = None) =>
          last.status = "error" /\ last.error = "EmptyInputError"

\* C4: every result in the cache or returned, whose cleaned field is not
\* None, has a translated field that is not empty after trimming.
C4_TranslatedNeverBlank ==
    /\ \A k \in DOMAIN translation_cache :
          translation_cache[k].cleaned # None =>
              strip(translation_cache[k].translated) # << >>
    /\ (last.status \in {"hit", "miss"} /\ last.result.cleaned # None) =>
          strip(last.result.translated) # << >>

\* C5: a failing translate_text logs the error, re-raises it, returns no
\* result and leaves the cache exactly as it was.
C5_FailureLeavesCacheAlone ==
    [][last'.status = "error" =>
          /\ translation_cache' = translation_cache
          /\ last'.logged
          /\ last'.raised
          /\ last'.result = NoResult]_vars

\* a call that failed in post-processing while the cache held an entry
C5_Witness ==
    /\ last.status = "error"
    /\ last.error = "IndexError"
    /\ last.raised
    /\ last.text \notin DOMAIN translation_cache
    /\ translation_cache # << >>

-----------------------------------------------------------------------------
(* Properties of clean_text and normalize_arabic (specification SpecClean) *)

\* C6: a result of clean_text that is not None is never empty or
\* whitespace-only (it is not empty once whitespace is collapsed and trimmed).
C6_CleanedNeverBlank ==
    (fn = "cleaned" /\ fn_out # None) =>
        strip(CollapseWhitespace(fn_out)) # << >>

\* C7 as claimed: cleaning a cleaned text again gives the same text.
C7_CleanIdempotent ==
    fn = "recleaned" => fn_out2 = fn_out

\* C7 amended: cleaning again gives the same text whenever the first pass
\* left no leading, trailing or doubled whitespace in its result.
C7_CleanIdempotentOnTidy ==
    (fn = "recleaned" /\ fn_out = strip(CollapseWhitespace(fn_out))) =>
        fn_out2 = fn_out

\* an Arabic text that the first pass changed, into a tidy result
C7_Witness ==
    /\ fn = "recleaned"
    /\ fn_lang = "ar"
    /\ fn_out = strip(CollapseWhitespace(fn_out))
    /\ fn_out # fn_in
    /\ fn_out2 = fn_out
    /\ \E i \in 1..Len(fn_in) : fn_in[i] = 1571

\* C8: the output of normalize_arabic holds no character of U+064B-U+065F,
\* the marks produced by the decomposition included, and every character with
\* an entry in the normalization table appears as its canonical form.
C8_NormalizedHasNoDiacritics ==
    fn = "normalized" =>
        /\ \A i \in 1..Len(fn_out) :
              ~(fn_out[i] \in 1611..1631) /\ fn_out[i] \notin DOMAIN arabic_normalizer
        /\ \A i \in 1..Len(fn_in) :
              fn_in[i] \in DOMAIN arabic_normalizer =>
                  fn_out = normalize_arabic(SubSeq(fn_in, 1, i - 1))
                           \o << arabic_normalizer[fn_in[i]] >>
                           \o normalize_arabic(SubSeq(fn_in, i + 1, Len(fn_in)))

\* alef with hamza above, fatha, teh marbuta: normalized to alef, heh
C8_Witness ==
    /\ fn = "normalized"
    /\ fn_in = << 1571, 1614, 1577 >>
    /\ fn_out = << 1575, 1607 >>

-----------------------------------------------------------------------------
(* Properties of the post-processing (specification SpecPost) *)

\* C9: for ar-en, two consecutive article words collapse to the first one,
\* also at the start of the output where the first letter was capitalized:
\* "the the cat sat ." becomes "The cat sat.".
C9_LeadingArticlePairCollapsed ==
    (fn = "postprocessed" /\ fn_lang = "ar-en") =>
        /\ fn_in = RawTheTheCat => fn_out = TheCatSat
        /\ \A i, j \in 1..3 :
              fn_in = Articles[i] \o << 32 >> \o Articles[j] =>
                  fn_out = CapitalizeFirst(Articles[i])

\* C10: for en-ar, '.' and ',' become the Arabic full stop and comma and the
\* space before the substituted mark is removed, for the full stop as for the
\* comma: the example sentence ends up with no space before either mark.
C10_SpaceBeforeArabicMarksRemoved ==
    (fn = "postprocessed" /\ fn_lang = "en-ar") =>
        /\ fn_in = RawMarhaba => fn_out = MarhabaTight
        /\ fn_in = << 1576, 32, 44 >> => fn_out = << 1576, 1548 >>
        /\ fn_in = << 1576, 32, 46 >> => fn_out = << 1576, 1748 >>

\* C11: for ar-en, the whitespace character before every mark of ? . ! , ;
\* that is followed by whitespace or the end of the text is removed, adjacent
\* marks that share a separating space included: "a , , b" and "ok ! ?" keep
\* no space before either mark, and a text without doubled whitespace keeps
\* no single space in front of such a mark.
C11_EverySpaceBeforeMarkRemoved ==
    (fn = "postprocessed" /\ fn_lang = "ar-en" /\ fn_out # IndexError) =>
        /\ fn_in = RawCommaComma => fn_out = << 65, 44, 44, 32, 98 >>
        /\ fn_in = RawBangQuery => fn_out = << 79, 107, 33, 63 >>
        /\ (\A i \in 1..(Len(fn_in) - 1) : ~(IsSpace(fn_in[i]) /\ IsSpace(fn_in[i + 1]))) =>
              \A i \in 1..(Len(fn_out) - 1) :
                  ~ /\ IsSpace(fn_out[i])
                    /\ fn_out[i + 1] \in EnglishMarks
                    /\ (i + 1 = Len(fn_out) \/ IsSpace(fn_out[i + 2]))

-----------------------------------------------------------------------------
(* Properties of translate_text with the echoing engine (specification SpecEcho) *)

\* the ASCII letters of a text, in order
Letters(t) == SelectSeq(t, LAMBDA c : c \in 65..90 \/ c \in 97..122)

\* C12: every result of a successful translate_text has the unmodified input
\* as original, clean_text(input, source language) as cleaned and the
\* post-processed engine output, without leading or trailing whitespace, as
\* translated; with the echoing engine "Hello,   world!!!" for en-ar gives
\* cleaned "Hello, world!!!" and a translated text with the same ASCII letters.
C12_ResultFields ==
    /\ \A k \in DOMAIN translation_cache :
          /\ translation_cache[k].original = k
          /\ translation_cache[k].cleaned = clean_text(k, SrcLang(direction))
          /\ strip(translation_cache[k].translated) = translation_cache[k].translated
    /\ last.status \in {"hit", "miss"} =>
          /\ last.result.original = last.text
          /\ last.result.cleaned = clean_text(last.text, SrcLang(direction))
          /\ strip(last.result.translated) = last.result.translated
    /\ last.status = "miss" =>
          /\ last.result.translated = postprocess(last.raw, direction)
          /\ (direction = "en-ar" /\ last.text = HelloWorld
                /\ last.raw = last.result.cleaned) =>
                /\ last.result.cleaned = HelloWorldCleaned
                /\ Letters(last.result.translated) = Letters(HelloWorld)
                /\ last.result.translated =
                       << 72, 101, 108, 108, 111, 1548, 32, 119, 111, 114, 108, 100, 33, 33, 33 >>

\* the end-to-end scenario: en-ar, "Hello,   world!!!" answered by the echo
C12_Witness ==
    /\ direction = "en-ar"
    /\ last.status = "miss"
    /\ last.text = HelloWorld
    /\ last.raw = HelloWorldCleaned
    /\ translation_cache[HelloWorld] = last.result

-----------------------------------------------------------------------------
(* Properties of clean_data (specification SpecData) *)

\* does the loaded record r survive: both sides clean to something
Survives(r) ==
    /\ clean_text(r.src, SrcLang(direction)) # None
    /\ clean_text(r.tgt, TgtLang(direction)) # None

\* C13: after clean_data the training set holds exactly the loaded records
\* whose source and target both cleaned to a non-rejected value, cleaned and in
\* their original order; no remaining record has a rejected src or tgt.
C13_OnlyWholePairsRemain ==
    fn = "data_cleaned" =>
        LET kept == SelectSeq(fn_in, Survives)
        IN  /\ Len(dataset.train) = Len(kept)
            /\ \A i \in 1..Len(kept) :
                  /\ dataset.train[i].src = clean_text(kept[i].src, SrcLang(direction))
                  /\ dataset.train[i].tgt = clean_text(kept[i].tgt, TgtLang(direction))
            /\ \A i \in 1..Len(dataset.train) :
                  dataset.train[i].src # None /\ dataset.train[i].tgt # None
            /\ fn_out.removed_count = Len(fn_in) - Len(kept)

\* a pair dropped although only its target was rejected, between two
\* different pairs that were kept in order
C13_Witness ==
    /\ fn = "data_cleaned"
    /\ Len(fn_in) = 3
    /\ Survives(fn_in[1])
    /\ ~Survives(fn_in[2])
    /\ clean_text(fn_in[2].src, SrcLang(direction)) # None
    /\ Survives(fn_in[3])
    /\ fn_in[1] # fn_in[3]
    /\ Len(dataset.train) = 2

-----------------------------------------------------------------------------
(* Properties of the cache across model changes (specification SpecModel) *)

\* C14: across translate_text calls, load_model and train_model the set of
\* cache keys only grows and no stored value is changed or removed; a cached
\* text keeps returning its stored result, also after the model was fine-tuned.
C14_CacheNeverInvalidated ==
    [][/\ \A k \in DOMAIN translation_cache :
              /\ k \in DOMAIN translation_cache'
              /\ translation_cache'[k] = translation_cache[k]
       /\ (last' # last /\ last'.text \in DOMAIN translation_cache) =>
              /\ last'.status = "hit"
              /\ last'.result = translation_cache[last'.text]]_vars

\* the test sentence, translated by the base model during load_model, is
\* returned from the cache after fine-tuning although the fine-tuned model
\* would decode something else
C14_Witness ==
    /\ model = "finetuned"
    /\ last.status = "hit"
    /\ last.text = TestText(direction)
    /\ last.result.translated = postprocess(ModelDecode("base"), direction)
    /\ last.result.translated # postprocess(ModelDecode("finetuned"), direction)

-----------------------------------------------------------------------------
(* Properties of evaluate_translations (specification SpecEval) *)

\* C15: when translate_text fails for a validation sample the evaluation
\* re-raises at that sample: the samples before it were translated, no later
\* sample reaches translate_text, and no aggregate result is returned or
\* written; a result is returned and written only when every sample was
\* translated.
C15_EvaluationAbortsEagerly ==
    LET samples == dataset.validation
        n       == evaluation.attempted
    IN  /\ (evaluation.status # "none" /\ last.status = "error") =>
              /\ evaluation.status = "raised"
              /\ evaluation.logged
              /\ ~evaluation.written
              /\ ~evaluation.returned
              /\ n >= 1
              /\ last.text = samples[n].src
              /\ last.raised
              /\ evaluation.translated = n - 1
              /\ \A i \in 1..(n - 1) : samples[i].src \in DOMAIN translation_cache
              /\ \A i \in (n + 1)..Len(samples) :
                    (\A j \in 1..n : samples[j].src # samples[i].src) =>
                        /\ tokenizerCalls[samples[i].src] = 0
                        /\ generateCalls[samples[i].src] = 0
                        /\ samples[i].src \notin DOMAIN translation_cache
        /\ evaluation.status = "done" =>
              /\ evaluation.written
              /\ n = Len(samples)
              /\ evaluation.translated = Len(samples)
              /\ \A i \in 1..Len(samples) : samples[i].src \in DOMAIN translation_cache

\* the second of three different samples failed: the first is cached, the
\* third never reached the engine, nothing was written
C15_Witness ==
    /\ evaluation.status = "raised"
    /\ Len(dataset.validation) = 3
    /\ evaluation.attempted = 2
    /\ last.status = "error"
    /\ dataset.validation[1].src \in DOMAIN translation_cache
    /\ dataset.validation[3].src \notin {dataset.validation[1].src, dataset.validation[2].src}
    /\ tokenizerCalls[dataset.validation[3].src] = 0
    /\ ~evaluation.written

-----------------------------------------------------------------------------
(* Properties of run_pipeline and the main program (specification SpecRun) *)

\* the order of the stages as the claim lists it
ClaimedOrder ==
    << "setup_resources", "load_data", "clean_data", "filter_data", "split_data",
       "load_model", "tokenize_data", "setup_training", "train_model",
       "evaluate_translations", "generate_final_report" >>

\* the stages ran in the claimed order, and the failure of stage st in
\* pipeline p halted the run: p is still the current pipeline, st is the last
\* stage that ran, the process is over, p never logged its completion
HaltedAt(p, st) ==
    /\ run.pipeline = p
    /\ run.status \in {"exited", "raised"}
    /\ run.stages[Len(run.stages)] = st
    /\ \A i \in 1..Len(run.completed) : run.completed[i] # p

\* C16 as claimed: the stages run strictly in the listed order and a failure
\* of any of them halts the run (no later stage, no logged completion, no
\* second pipeline).
C16_AnyStageFailureHalts ==
    /\ run.stages = SubSeq(ClaimedOrder, 1, Len(run.stages))
    /\ \A f \in run.failures : HaltedAt(f[1], f[2])

\* C16 amended: the same for every stage but generate_final_report, whose
\* exceptions are caught and logged.
C16_StageFailureHaltsExceptReport ==
    /\ run.stages = SubSeq(ClaimedOrder, 1, Len(run.stages))
    /\ \A f \in run.failures :
          f[2] # "generate_final_report" => HaltedAt(f[1], f[2])
    /\ \A i \in 1..Len(run.completed) :
          \A f \in run.failures : f[1] = run.completed[i] => f[2] = "generate_final_report"
    /\ run.pipeline = 2 => (run.completed # << >> /\ run.completed[1] = 1)

\* the evaluation of the first pipeline failed: run_pipeline logged the
\* failure and re-raised, the second pipeline never starts
C16_Witness ==
    /\ run.pipeline = 1
    /\ << 1, "evaluate_translations" >> \in run.failures
    /\ run.status = "raised"
    /\ run.failureLogged
    /\ Len(run.stages) = 10
    /\ run.completed = << >>

-----------------------------------------------------------------------------
(* Properties of concurrent translate_text calls (specification SpecConcurrent) *)

\* C17: as long as no two translate_text calls were in flight at once, the
\* engine produced a translation at most once for each key and never ran for
\* a key already stored; calls that interleave can break this (the witness).
C17_SequentialAtMostOncePerKey ==
    ~threads.overlapped =>
        /\ \A x \in ConcurrentTexts : threads.translatedRuns[x] <= 1
        /\ threads.staleRuns = {}

\* two calls for the same uncached text interleaved: both saw the miss of
\* line 582, the engine ran twice for the key and translated it both times
C17_Witness ==
    /\ threads.overlapped
    /\ \E x \in ConcurrentTexts :
          /\ generateCalls[x] = 2
          /\ threads.translatedRuns[x] = 2
          /\ x \in DOMAIN translation_cache
          /\ \E t \in Threads :
                /\ threads.calls[t].pc = "computed"
                /\ threads.calls[t].text = x

====
